---- MODULE Spec2Model ----
(***************************************************************************)
(* XPlaneConnectX: a UDP client for X-Plane.  One engine object owns the   *)
(* socket self.sock, the registry self.reverse_index (slot id -> DataRef   *)
(* name) and the cache self.current_dref_values (name -> value/timestamp). *)
(* subscribeDREFs fills both and starts a daemon thread running _observe;  *)
(* getDREF and getPOSI are synchronous queries on a socket of their own.   *)
(*                                                                         *)
(* The model has two caller threads, the observe threads the program has   *)
(* started, and an environment (the simulator host and any other sender of *)
(* UDP datagrams) that puts datagrams into the receive queue of a socket.  *)
(* A datagram is its 4-byte tag, the 8-byte chunks that follow the 5-byte  *)
(* header (each read by struct.unpack("<if") as a slot id and a value) and *)
(* the number of bytes left over after the last whole chunk.               *)
(***************************************************************************)
EXTENDS Integers, Sequences, FiniteSets, TLC

VARIABLES
    subscribed_drefs,     \* self.subscribed_drefs: list of (name, freq)
    reverse_index,        \* self.reverse_index: slot id -> name
    current_dref_values,  \* self.current_dref_values: name -> entry
    inbox,                \* receive queue of every socket
    sockSent,             \* the requests sent on self.sock so far
    thr,                  \* the _observe threads, in the order started
    call,                 \* the frame of each caller thread
    clock,                \* what datetime.datetime.now() returns
    nops                  \* operations started so far

vars == <<subscribed_drefs, reverse_index, current_dref_values, inbox,
          sockSent, thr, call, clock, nops>>

(***************************************************************************)
(* Bounds of the model.                                                    *)
(***************************************************************************)
MaxOps == 2       \* operations the callers start in one run
MaxInbox == 1     \* datagrams queued on one socket
MaxRecs == 2      \* records in one update datagram the host sends
MaxClock == 1     \* ticks of the clock

(***************************************************************************)
(* Constants of the program.                                               *)
(***************************************************************************)
IdxOffset == 10       \* getDREF: len(reverse_index) + 10
HeaderLen == 5        \* tag (4 bytes) and one pad byte
RecLen == 8           \* struct "<if"
PosiPayloadLen == 65  \* struct "<xdddffffffffff", unpacked from data[4:]
TagLen == 4           \* data[0:4], data[4:]
GetDREFFreq == 10     \* frequency of the one-shot subscription
PosiRate == 100       \* b'100'
SubFreq == 10         \* frequency the example subscribes with

Callers == {"caller1", "caller2"}
Names == {"a", "b"}
MainSock == "sock"
TempSock(c) == c
Endpoints == {MainSock} \cup {TempSock(c) : c \in Callers}

None == <<>>
Some(v) == <<v>>

(***************************************************************************)
(* Inputs.  The lists subscribeDREFs is called with: one name, two, the    *)
(* same name twice, and a list longer than IdxOffset.                      *)
(***************************************************************************)
LongList == [i \in 1..(IdxOffset + 1) |->
                IF i % 2 = 1 THEN <<"a", SubFreq>> ELSE <<"b", SubFreq>>]

SubLists == { << <<"a", SubFreq>> >>,
              << <<"a", SubFreq>>, <<"b", SubFreq>> >>,
              << <<"a", SubFreq>>, <<"a", SubFreq>> >>,
              LongList }

(***************************************************************************)
(* Values on the wire.  The host answers the endpoint a request came from, *)
(* so what it sends for the permanent subscriptions reaches self.sock and  *)
(* what it sends for a getDREF reaches that call's temp_socket; the two    *)
(* are told apart here by the values they carry.                           *)
(***************************************************************************)
PermValues == {1, 2}
OneShotValues == {3}

Datagram(tag, recs, extra) == [tag |-> tag, recs |-> recs, extra |-> extra]
NoData == Datagram("", <<>>, 0)

PosChunks == (PosiPayloadLen - 1) \div RecLen
PosDatagram == Datagram("RPOS", [i \in 1..PosChunks |-> <<i, 0>>], 0)

\* The update payloads the host sends: one record (for slot 0, for slot 1, or
\* for the last slot of LongList), or a batch of up to MaxRecs records that
\* starts <<0, 1>>, <<0, 2>> (one slot twice), <<0, 1>>, <<1, 2>> or
\* <<1, 1>>, <<0, 2>> and goes on with slot 0.
HostUpdates ==
    { << <<0, 1>> >>, << <<1, 1>> >>, << <<Len(LongList) - 1, 1>> >> }
    \cup { [k \in 1..n |-> IF k = 1 THEN <<h[1], 1>>
                            ELSE IF k = 2 THEN <<h[2], 2>> ELSE <<0, 1>>] :
             n \in 2..MaxRecs, h \in { <<0, 0>>, <<0, 1>>, <<1, 0>> } }

\* What may arrive on self.sock.
SockDatagrams ==
    { Datagram("RREF", recs, 0) : recs \in HostUpdates }
    \cup { Datagram("RREF", << <<0, 1>> >>, 3),
           Datagram("XXXX", << <<0, 1>> >>, 0),
           PosDatagram }

\* What may arrive on the temp_socket of a call that asked for slot idx.
TempDatagrams(idx) ==
    { Datagram("RREF", << <<idx, v>> >>, 0) : v \in OneShotValues }
    \cup { Datagram("RREF", << <<idx + 1, v>> >>, 0) : v \in OneShotValues }
    \cup { Datagram("XXXX", << <<idx, v>> >>, 0) : v \in OneShotValues }
    \cup { Datagram("RREF", << <<idx, v>>, <<idx, v>> >>, 0) : v \in OneShotValues }
    \cup { PosDatagram, Datagram("RPOS", << <<1, 0>> >>, 0),
           Datagram("XXXX", PosDatagram.recs, 0) }

(***************************************************************************)
(* The codec, as the code computes it.                                     *)
(***************************************************************************)
DataLen(d) == HeaderLen + RecLen * Len(d.recs) + d.extra

IsRREF(d) == d.tag = "RREF"

IsRPOSAny(d) == TRUE

\* data[0:4] == b'RPOS'
IsRPOS(d) == d.tag = "RPOS"

MisalignedNever(d) == FALSE

Misaligned(d) == ((DataLen(d) - HeaderLen) % RecLen) # 0

NoPackets(d) == (DataLen(d) - HeaderLen) \div RecLen

RecordAtFirst(d, p_idx) == d.recs[1]

RecordAt(d, p_idx) == d.recs[p_idx + 1]

KnownIndex(idx, ri) == idx \in DOMAIN ri

\* struct.unpack("<if", data[5:]) needs exactly 8 bytes.
UnpackIfOk(d) == DataLen(d) - HeaderLen = RecLen

\* struct.unpack("<xdddffffffffff", data[4:]) needs exactly 65 bytes.
UnpackPosiOk(d) == DataLen(d) - TagLen = PosiPayloadLen

OneShotIdx(ri) == Cardinality(DOMAIN ri) + IdxOffset

ReverseIndexOf(lst) == [i \in 0..(Len(lst) - 1) |-> lst[i + 1][1]]

UnsetEntry == [value |-> None, timestamp |-> None]

InitCacheOf(lst) == [n \in {lst[i][1] : i \in 1..Len(lst)} |-> UnsetEntry]

ApplyRecordReset(cache, name, value, now) ==
    [n \in {name} |-> [value |-> Some(value), timestamp |-> Some(now)]]

\* self.current_dref_values[name] = {'value': value, 'timestamp': now}
ApplyRecord(cache, name, value, now) ==
    [n \in (DOMAIN cache) \cup {name} |->
        IF n = name THEN [value |-> Some(value), timestamp |-> Some(now)]
        ELSE cache[n]]

(***************************************************************************)
(* What a caller does, in order: the datagrams it sends and receives and   *)
(* how the call ends.                                                      *)
(***************************************************************************)
Ev(kind, ep, tag, a, b, name) ==
    [ev |-> kind, ep |-> ep, tag |-> tag, a |-> a, b |-> b, name |-> name]

SendRREF(ep, freq, idx, name) == Ev("send", ep, "RREF", freq, idx, name)
SendRPOS(ep, rate) == Ev("send", ep, "RPOS", rate, 0, "")
Recv(ep, d) == Ev("recv", ep, d.tag, 0, 0, "")
Return == Ev("return", "", "", 0, 0, "")
Raise(what) == Ev("raise", "", "", 0, 0, what)

NoResult == [kind |-> "none", what |-> "", val |-> None]
Returned(val) == [kind |-> "return", what |-> "", val |-> val]
Raised(what) == [kind |-> "raise", what |-> what, val |-> None]

\* state is the dict a print_state call was given: None while that dict is
\* still the one self.current_dref_values refers to, Some(d) once the
\* attribute refers to another dict and this one, of content d, is written no
\* more.
IdleFrame == [pc |-> "idle", op |-> "", dref |-> "", idx |-> 0, val |-> None,
              state |-> None, events |-> <<>>, result |-> NoResult]

NewThread == [pc |-> "recv", data |-> NoData, p_idx |-> 0, err |-> ""]

Init ==
    /\ subscribed_drefs = <<>>
    /\ reverse_index = ReverseIndexOf(<<>>)
    /\ current_dref_values = InitCacheOf(<<>>)
    /\ inbox = [e \in Endpoints |-> <<>>]
    /\ sockSent = {}
    /\ thr = <<>>
    /\ call = [c \in Callers |-> IdleFrame]
    /\ clock = 0
    /\ nops = 0

(***************************************************************************)
(* Helpers on the state.                                                   *)
(***************************************************************************)
Threads == 1..Len(thr)

CanStart(c) == call[c].pc = "idle" /\ nops < MaxOps

Begin(c, op, pc, dref, idx, events) ==
    [pc |-> pc, op |-> op, dref |-> dref, idx |-> idx, val |-> None,
     state |-> None, events |-> events, result |-> NoResult]

Finish(f, events, result) ==
    [f EXCEPT !.pc = "idle", !.events = f.events \o events, !.result = result]

\* Caller c is inside print_state.
Reading(c) == call[c].op = "print_state" /\ call[c].pc # "idle"

(***************************************************************************)
(* subscribeDREFs, one step per statement.                                 *)
(***************************************************************************)
\* self.subscribed_drefs = subscribed_drefs
Subscribe_Assign(c, lst) ==
    /\ CanStart(c)
    /\ subscribed_drefs' = lst
    /\ call' = [call EXCEPT ![c] = Begin(c, "subscribeDREFs", "sub_index", "", 0, <<>>)]
    /\ nops' = nops + 1
    /\ UNCHANGED <<reverse_index, current_dref_values, inbox, sockSent, thr, clock>>

\* self.reverse_index = {i: sdf[0] for i, sdf in enumerate(self.subscribed_drefs)}
Subscribe_Index(c) ==
    /\ call[c].pc = "sub_index"
    /\ reverse_index' = ReverseIndexOf(subscribed_drefs)
    /\ call' = [call EXCEPT ![c].pc = "sub_cache"]
    /\ UNCHANGED <<subscribed_drefs, current_dref_values, inbox, sockSent, thr, clock, nops>>

\* self.current_dref_values = {sdf[0]: {'value': None, 'timestamp': None} ...}
Subscribe_Cache(c) ==
    /\ call[c].pc = "sub_cache"
    /\ current_dref_values' = InitCacheOf(subscribed_drefs)
    /\ call' = [c2 \in Callers |->
                  IF c2 = c THEN [call[c] EXCEPT !.pc = "sub_requests"]
                  ELSE IF Reading(c2) /\ call[c2].state = None
                       THEN [call[c2] EXCEPT !.state = Some(current_dref_values)]
                  ELSE call[c2]]
    /\ UNCHANGED <<subscribed_drefs, reverse_index, inbox, sockSent, thr, clock, nops>>

\* _create_observation_requests: one RREF request per element, slot id = position
ObservationRequests(lst) ==
    { SendRREF(MainSock, lst[i][2], i - 1, lst[i][1]) : i \in 1..Len(lst) }

Subscribe_Requests(c) ==
    /\ call[c].pc = "sub_requests"
    /\ call' = [call EXCEPT ![c].pc = "sub_thread"]
    /\ sockSent' = sockSent \cup ObservationRequests(subscribed_drefs)
    /\ UNCHANGED <<subscribed_drefs, reverse_index, current_dref_values, inbox, thr, clock, nops>>

\* _observe_async: start one more daemon thread running _observe
Subscribe_Thread(c) ==
    /\ call[c].pc = "sub_thread"
    /\ thr' = Append(thr, NewThread)
    /\ call' = [call EXCEPT ![c] = Finish(@, << Return >>, Returned(None))]
    /\ UNCHANGED <<subscribed_drefs, reverse_index, current_dref_values, inbox, sockSent, clock, nops>>

(***************************************************************************)
(* _observe, the body of every observe thread.                             *)
(***************************************************************************)
StoppedResumes(t, err) == [pc |-> "recv", data |-> NoData, p_idx |-> 0, err |-> err]

\* a raise in _observe ends the thread: nothing catches it
Stopped(t, err) == [pc |-> "stopped", data |-> NoData, p_idx |-> 0, err |-> err]

\* data, addr = self.sock.recvfrom(16348), the tag test and the length test
AfterRecv(d) ==
    IF ~IsRREF(d) THEN NewThread
    ELSE IF Misaligned(d)
         THEN [pc |-> "stopped", data |-> NoData, p_idx |-> 0,
               err |-> "ValueError: Received data is not 8 bytes long"]
    ELSE IF NoPackets(d) = 0 THEN NewThread
    ELSE [pc |-> "record", data |-> d, p_idx |-> 0, err |-> ""]

RecvReadyUnlessQuery(t) ==
    /\ inbox[MainSock] # <<>>
    /\ \A c \in Callers : call[c].pc \notin {"get_recv", "posi_recv"}

\* self.sock.recvfrom(16348) returns when a datagram is queued on self.sock
RecvReady(t) == inbox[MainSock] # <<>>

Observe_Recv(t) ==
    /\ thr[t].pc = "recv"
    /\ RecvReady(t)
    /\ thr' = [thr EXCEPT ![t] = AfterRecv(Head(inbox[MainSock]))]
    /\ inbox' = [inbox EXCEPT ![MainSock] = Tail(@)]
    /\ UNCHANGED <<subscribed_drefs, reverse_index, current_dref_values, sockSent, call, clock, nops>>

\* for p_idx in range(no_packets): on to the next record, or back to recvfrom
AfterRecord(t) ==
    IF thr[t].p_idx + 1 < NoPackets(thr[t].data)
    THEN [thr[t] EXCEPT !.p_idx = thr[t].p_idx + 1]
    ELSE NewThread

InvalidIndexIgnored(t) == AfterRecord(t)

\* raise ValueError("Received a packet with invalid index.")
InvalidIndex(t) == Stopped(t, "ValueError: Received a packet with invalid index.")

\* One turn of the for loop: p_data, struct.unpack("<if", p_data), the test
\* idx in self.reverse_index.keys() and the store into the cache (or the raise).
Observe_Record(t) ==
    /\ thr[t].pc = "record"
    /\ LET rec == RecordAt(thr[t].data, thr[t].p_idx)
       IN  IF KnownIndex(rec[1], reverse_index)
           THEN /\ current_dref_values' =
                       ApplyRecord(current_dref_values, reverse_index[rec[1]], rec[2], clock)
                /\ thr' = [thr EXCEPT ![t] = AfterRecord(t)]
           ELSE /\ thr' = [thr EXCEPT ![t] = InvalidIndex(t)]
                /\ UNCHANGED current_dref_values
    /\ UNCHANGED <<subscribed_drefs, reverse_index, inbox, sockSent, call, clock, nops>>

(***************************************************************************)
(* getDREF.                                                                *)
(***************************************************************************)
GetDREFRecvFromMain(c) == MainSock

\* data, addr = temp_socket.recvfrom(16348)
GetDREFRecvEp(c) == TempSock(c)

CloseTemp(box, c) == [box EXCEPT ![TempSock(c)] = <<>>]

\* temp_socket, idx = len(reverse_index) + 10, the Subscribe request
GetDREF_Request(c, dref) ==
    /\ CanStart(c)
    /\ LET idx == OneShotIdx(reverse_index)
       IN  call' = [call EXCEPT ![c] =
                      Begin(c, "getDREF", "get_recv", dref, idx,
                            << SendRREF(TempSock(c), GetDREFFreq, idx, dref) >>)]
    /\ nops' = nops + 1
    /\ UNCHANGED <<subscribed_drefs, reverse_index, current_dref_values, inbox, sockSent, thr, clock>>

\* the blocking recvfrom, the unpack of data[5:] and the index test
GetDREF_Recv(c) ==
    /\ call[c].pc = "get_recv"
    /\ LET ep == GetDREFRecvEp(c)
       IN  /\ inbox[ep] # <<>>
           /\ LET d == Head(inbox[ep])
                  rest == [inbox EXCEPT ![ep] = Tail(@)]
              IN  IF ~UnpackIfOk(d)
                  THEN /\ call' = [call EXCEPT ![c] =
                                     Finish(@, << Recv(ep, d), Raise("struct.error") >>,
                                            Raised("struct.error"))]
                       /\ inbox' = CloseTemp(rest, c)
                  ELSE IF d.recs[1][1] # call[c].idx
                  THEN /\ call' = [call EXCEPT ![c] =
                                     Finish(@, << Recv(ep, d), Raise("ValueError: Invalid index received.") >>,
                                            Raised("ValueError: Invalid index received."))]
                       /\ inbox' = CloseTemp(rest, c)
                  ELSE /\ call' = [call EXCEPT ![c].pc = "get_unsub",
                                               ![c].val = Some(d.recs[1][2]),
                                               ![c].events = Append(@, Recv(ep, d))]
                       /\ inbox' = rest
    /\ UNCHANGED <<subscribed_drefs, reverse_index, current_dref_values, sockSent, thr, clock, nops>>

\* the Unsubscribe request (frequency 0) and return value
GetDREF_Unsub(c) ==
    /\ call[c].pc = "get_unsub"
    /\ call' = [call EXCEPT ![c] =
                  Finish(@, << SendRREF(TempSock(c), 0, call[c].idx, call[c].dref), Return >>,
                         Returned(call[c].val))]
    /\ inbox' = CloseTemp(inbox, c)
    /\ UNCHANGED <<subscribed_drefs, reverse_index, current_dref_values, sockSent, thr, clock, nops>>

(***************************************************************************)
(* getPOSI.                                                                *)
(***************************************************************************)
PosiCancelSameRate == SendRPOS(MainSock, PosiRate)

\* msg = struct.pack('4sx10s', b'RPOS', b'0'); self.sock.sendto(msg, ...)
PosiCancel == SendRPOS(MainSock, 0)

\* temp_socket and the position-query request at 100 Hz
GetPOSI_Request(c) ==
    /\ CanStart(c)
    /\ call' = [call EXCEPT ![c] =
                  Begin(c, "getPOSI", "posi_recv", "", 0,
                        << SendRPOS(TempSock(c), PosiRate) >>)]
    /\ nops' = nops + 1
    /\ UNCHANGED <<subscribed_drefs, reverse_index, current_dref_values, inbox, sockSent, thr, clock>>

\* the blocking recvfrom, the tag test and the unpack of data[4:]
GetPOSI_Recv(c) ==
    /\ call[c].pc = "posi_recv"
    /\ LET ep == TempSock(c)
       IN  /\ inbox[ep] # <<>>
           /\ LET d == Head(inbox[ep])
                  rest == [inbox EXCEPT ![ep] = Tail(@)]
              IN  IF ~IsRPOS(d)
                  THEN /\ call' = [call EXCEPT ![c] =
                                     Finish(@, << Recv(ep, d), Raise("ValueError: Received invalid header.") >>,
                                            Raised("ValueError: Received invalid header."))]
                       /\ inbox' = CloseTemp(rest, c)
                  ELSE IF ~UnpackPosiOk(d)
                  THEN /\ call' = [call EXCEPT ![c] =
                                     Finish(@, << Recv(ep, d), Raise("struct.error") >>,
                                            Raised("struct.error"))]
                       /\ inbox' = CloseTemp(rest, c)
                  ELSE /\ call' = [call EXCEPT ![c].pc = "posi_cancel",
                                               ![c].val = d.recs,
                                               ![c].events = Append(@, Recv(ep, d))]
                       /\ inbox' = rest
    /\ UNCHANGED <<subscribed_drefs, reverse_index, current_dref_values, sockSent, thr, clock, nops>>

\* the cancel request on self.sock and return of the 13 fields
GetPOSI_Cancel(c) ==
    /\ call[c].pc = "posi_cancel"
    /\ call' = [call EXCEPT ![c] = Finish(@, << PosiCancel, Return >>, Returned(call[c].val))]
    /\ inbox' = CloseTemp(inbox, c)
    /\ sockSent' = sockSent \cup {PosiCancel}
    /\ UNCHANGED <<subscribed_drefs, reverse_index, current_dref_values, thr, clock, nops>>

(***************************************************************************)
(* The operations that only send: sendDREF, sendCMND, sendPOSI, sendCTRL   *)
(* and pauseSIM.  Every datagram goes out on self.sock to (self.ip,        *)
(* self.port), the one host of the model.                                  *)
(***************************************************************************)
WriteValues == {1}
Commands == {"sim/operation/quit"}
PosInputs == {1, 2}

SendDREF(ep, value, dref) == Ev("send", ep, "DREF", value, 0, dref)
SendCMND(ep, command) == Ev("send", ep, "CMND", 0, 0, command)
SendVEHS(ep, msg) == Ev("send", ep, "VEHS", msg, 0, "")

\* msg = struct.pack('<4sxf500s', b'DREF', value, dref); self.sock.sendto(msg, ...)
SendDREF_Call(c, dref, value) ==
    /\ CanStart(c)
    /\ call' = [call EXCEPT ![c] =
                  Finish(Begin(c, "sendDREF", "idle", dref, 0, <<>>),
                         << SendDREF(MainSock, value, dref), Return >>, Returned(None))]
    /\ sockSent' = sockSent \cup {SendDREF(MainSock, value, dref)}
    /\ nops' = nops + 1
    /\ UNCHANGED <<subscribed_drefs, reverse_index, current_dref_values, inbox, thr, clock>>

\* msg = struct.pack('<4sx500s', b'CMND', command); self.sock.sendto(msg, ...)
CMNDSends(command) == << SendCMND(MainSock, command) >>

SendCMND_Call(c, command) ==
    /\ CanStart(c)
    /\ call' = [call EXCEPT ![c] =
                  Finish(Begin(c, "sendCMND", "idle", "", 0, <<>>),
                         CMNDSends(command) \o << Return >>, Returned(None))]
    /\ sockSent' = sockSent \cup {SendCMND(MainSock, command)}
    /\ nops' = nops + 1
    /\ UNCHANGED <<subscribed_drefs, reverse_index, current_dref_values, inbox, thr, clock>>

\* pauseSIM: self.sendCMND('sim/operation/pause_on') or (...'pause_off')
PauseCommand(set_pause) ==
    IF set_pause THEN "sim/operation/pause_on" ELSE "sim/operation/pause_off"

PauseSIM_Call(c, set_pause) ==
    /\ CanStart(c)
    /\ call' = [call EXCEPT ![c] =
                  Finish(Begin(c, "pauseSIM", "idle", "", 0, <<>>),
                         CMNDSends(PauseCommand(set_pause)) \o << Return >>, Returned(None))]
    /\ sockSent' = sockSent \cup {SendCMND(MainSock, PauseCommand(set_pause))}
    /\ nops' = nops + 1
    /\ UNCHANGED <<subscribed_drefs, reverse_index, current_dref_values, inbox, thr, clock>>

\* sendCTRL: one DREF datagram for each of the eight controls, in this order
CtrlDrefs ==
    << "sim/cockpit2/controls/yoke_roll_ratio",
       "sim/cockpit2/controls/yoke_pitch_ratio",
       "sim/cockpit2/controls/yoke_heading_ratio",
       "sim/cockpit2/engine/actuators/throttle_jet_rev_ratio_all",
       "sim/cockpit/switches/gear_handle_status",
       "sim/cockpit2/controls/flap_ratio",
       "sim/cockpit2/controls/speedbrake_ratio",
       "sim/cockpit2/controls/parking_brake_ratio" >>

CtrlSends(value) == [i \in 1..Len(CtrlDrefs) |-> SendDREF(MainSock, value, CtrlDrefs[i])]

SendCTRL_Call(c, value) ==
    /\ CanStart(c)
    /\ call' = [call EXCEPT ![c] =
                  Finish(Begin(c, "sendCTRL", "idle", "", 0, <<>>),
                         CtrlSends(value) \o << Return >>, Returned(None))]
    /\ sockSent' = sockSent \cup {CtrlSends(value)[i] : i \in 1..Len(CtrlDrefs)}
    /\ nops' = nops + 1
    /\ UNCHANGED <<subscribed_drefs, reverse_index, current_dref_values, inbox, thr, clock>>

PosiResendOther(c) == SendVEHS(MainSock, 0)

\* the second self.sock.sendto(msg, ...) of sendPOSI
PosiResend(c) == SendVEHS(MainSock, call[c].val[1])

\* msg = struct.pack('<4sxidddfff', b'VEHS', ...) and the first sendto
SendPOSI_First(c, pos) ==
    /\ CanStart(c)
    /\ call' = [call EXCEPT ![c] =
                  [Begin(c, "sendPOSI", "vehs_second", "", 0, << SendVEHS(MainSock, pos) >>)
                      EXCEPT !.val = Some(pos)]]
    /\ sockSent' = sockSent \cup {SendVEHS(MainSock, pos)}
    /\ nops' = nops + 1
    /\ UNCHANGED <<subscribed_drefs, reverse_index, current_dref_values, inbox, thr, clock>>

SendPOSI_Second(c) ==
    /\ call[c].pc = "vehs_second"
    /\ call' = [call EXCEPT ![c] = Finish(@, << PosiResend(c), Return >>, Returned(None))]
    /\ sockSent' = sockSent \cup {PosiResend(c)}
    /\ UNCHANGED <<subscribed_drefs, reverse_index, current_dref_values, inbox, thr, clock, nops>>

(***************************************************************************)
(* print_state(xpc.current_dref_values), the reader of the example.        *)
(***************************************************************************)
\* A dict keeps its keys in the order they were put in; every list the model
\* subscribes with starts with "a".
KeyOrder == << "a", "b" >>

KeysOf(d) == SelectSeq(KeyOrder, LAMBDA n : n \in DOMAIN d)

\* The dict the call reads.
StateOf(c) == IF call[c].state = None THEN current_dref_values ELSE call[c].state[1]

Printed(k, value, timestamp) == Ev("print", "", "", value, timestamp, k)

PosOf(k) == IF k = "" THEN 0 ELSE CHOOSE i \in 1..Len(KeyOrder) : KeyOrder[i] = k

\* print('-'*98) and the iterator of state.keys(), which notes the dict's size
PrintState_Call(c) ==
    /\ CanStart(c)
    /\ call' = [call EXCEPT ![c] =
                  Begin(c, "print_state", "print_next", "",
                        Cardinality(DOMAIN current_dref_values), <<>>)]
    /\ nops' = nops + 1
    /\ UNCHANGED <<subscribed_drefs, reverse_index, current_dref_values, inbox, sockSent, thr, clock>>

\* for k in state.keys(): the next key, the end of the loop, or RuntimeError
\* when the dict has another size than when the iterator was made
PrintState_Next(c) ==
    /\ call[c].pc = "print_next"
    /\ LET keys == KeysOf(StateOf(c))
           pos == PosOf(call[c].dref)
       IN  call' = [call EXCEPT ![c] =
                      IF Len(keys) # call[c].idx
                      THEN Finish(@, << Raise("RuntimeError") >>, Raised("RuntimeError"))
                      ELSE IF pos < Len(keys)
                      THEN [@ EXCEPT !.pc = "print_value", !.dref = keys[pos + 1]]
                      ELSE Finish(@, << Return >>, Returned(None))]
    /\ UNCHANGED <<subscribed_drefs, reverse_index, current_dref_values, inbox, sockSent, thr, clock, nops>>

\* f"{state[k]['value']:<30}": the first lookup; None has no format '<30'
PrintState_Value(c) ==
    /\ call[c].pc = "print_value"
    /\ LET entry == StateOf(c)[call[c].dref]
       IN  call' = [call EXCEPT ![c] =
                      IF entry.value = None
                      THEN Finish(@, << Raise("TypeError") >>, Raised("TypeError"))
                      ELSE [@ EXCEPT !.pc = "print_timestamp", !.val = Some(entry)]]
    /\ UNCHANGED <<subscribed_drefs, reverse_index, current_dref_values, inbox, sockSent, thr, clock, nops>>

\* f"{state[k]['timestamp']}": the second lookup, and the print
PrintedPair(c) ==
    Printed(call[c].dref, call[c].val[1].value[1], StateOf(c)[call[c].dref].timestamp[1])

PrintState_Timestamp(c) ==
    /\ call[c].pc = "print_timestamp"
    /\ call' = [call EXCEPT ![c].pc = "print_next",
                            ![c].val = None,
                            ![c].events = Append(@, PrintedPair(c))]
    /\ UNCHANGED <<subscribed_drefs, reverse_index, current_dref_values, inbox, sockSent, thr, clock, nops>>

(***************************************************************************)
(* The environment: datagrams arrive, time passes.                         *)
(***************************************************************************)
\* self.sock has a port, and can be sent to, once it has sent.  UDP delays a
\* datagram at will, so one that would arrive while no thread is in recvfrom
\* is one that arrives when a thread is.
Deliver_Sock(d) ==
    /\ sockSent # {}
    /\ \E t \in Threads : thr[t].pc = "recv"
    /\ Len(inbox[MainSock]) < MaxInbox
    /\ inbox' = [inbox EXCEPT ![MainSock] = Append(@, d)]
    /\ UNCHANGED <<subscribed_drefs, reverse_index, current_dref_values, sockSent, thr, call, clock, nops>>

Deliver_Temp(c, d) ==
    /\ call[c].pc \in {"get_recv", "posi_recv"}
    /\ Len(inbox[TempSock(c)]) < MaxInbox
    /\ inbox' = [inbox EXCEPT ![TempSock(c)] = Append(@, d)]
    /\ UNCHANGED <<subscribed_drefs, reverse_index, current_dref_values, sockSent, thr, call, clock, nops>>

\* Only the order of the clock's readings matters, so the clock is held until
\* its present reading has been stored.
Tick ==
    /\ clock < MaxClock
    /\ \E n \in DOMAIN current_dref_values :
          current_dref_values[n].timestamp = Some(clock)
    /\ clock' = clock + 1
    /\ UNCHANGED <<subscribed_drefs, reverse_index, current_dref_values, inbox, sockSent, thr, call, nops>>

CallerStep(c) ==
    \/ \E lst \in SubLists : Subscribe_Assign(c, lst)
    \/ Subscribe_Index(c)
    \/ Subscribe_Cache(c)
    \/ Subscribe_Requests(c)
    \/ Subscribe_Thread(c)
    \/ \E dref \in Names : GetDREF_Request(c, dref)
    \/ GetDREF_Recv(c)
    \/ GetDREF_Unsub(c)
    \/ GetPOSI_Request(c)
    \/ GetPOSI_Recv(c)
    \/ GetPOSI_Cancel(c)
    \/ \E dref \in Names : \E value \in WriteValues : SendDREF_Call(c, dref, value)
    \/ \E command \in Commands : SendCMND_Call(c, command)
    \/ \E set_pause \in BOOLEAN : PauseSIM_Call(c, set_pause)
    \/ \E value \in WriteValues : SendCTRL_Call(c, value)
    \/ \E pos \in PosInputs : SendPOSI_First(c, pos)
    \/ SendPOSI_Second(c)
    \/ PrintState_Call(c)
    \/ PrintState_Next(c)
    \/ PrintState_Value(c)
    \/ PrintState_Timestamp(c)

ObserveStep(t) ==
    \/ Observe_Recv(t)
    \/ Observe_Record(t)

Next ==
    \/ \E c \in Callers : CallerStep(c)
    \/ \E t \in Threads : ObserveStep(t)
    \/ \E d \in SockDatagrams : Deliver_Sock(d)
    \/ \E c \in Callers : \E d \in TempDatagrams(call[c].idx) : Deliver_Temp(c, d)
    \/ Tick

Spec == Init /\ [][Next]_vars

(***************************************************************************)
(* Properties.                                                             *)
(***************************************************************************)
InFlightGetDREF(c) == call[c].op = "getDREF" /\ call[c].pc \in {"get_recv", "get_unsub"}

Terminated(c, op) == call[c].op = op /\ call[c].pc = "idle"

SubscribeRunning == \E c \in Callers : call[c].op = "subscribeDREFs" /\ call[c].pc # "idle"

\* A thread took the datagram at the head of self.sock's queue in this step.
SockRead == inbox[MainSock] # <<>> /\ inbox'[MainSock] = Tail(inbox[MainSock])

\* Thread t dealt with one record in this step.
RecordStep(t) == thr[t].pc = "record" /\ thr'[t] # thr[t]

FramingError == "ValueError: Received data is not 8 bytes long"

IndexError == "ValueError: Received a packet with invalid index."

\* C1: the slot ids of the registry and the slot ids of the getDREF calls in
\* flight are disjoint in every reachable state.
C1_SlotPartition ==
    \A c \in Callers : InFlightGetDREF(c) => call[c].idx \notin DOMAIN reverse_index

\* C2: a getDREF never holds or returns a value the host sent for a permanent
\* subscription, and the cache never holds a value the host sent in reply to
\* a getDREF.
C2_NoCrossRouting ==
    /\ \A c \in Callers :
          (call[c].op = "getDREF" /\ call[c].val # None) => call[c].val[1] \notin PermValues
    /\ \A n \in DOMAIN current_dref_values :
          current_dref_values[n].value # None
             => current_dref_values[n].value[1] \notin OneShotValues

C2_Witness ==
    /\ \E c \in Callers : Terminated(c, "getDREF") /\ call[c].result.kind = "return"
    /\ \E n \in DOMAIN current_dref_values : current_dref_values[n].value # None

\* C3: when a thread stores a record whose slot id S is in the registry, the
\* registry is unchanged and so is every cache entry but the one named
\* reverse_index[S]; no other key appears or disappears.
C3_OnlyRegisteredEntryChanges ==
    [][ \A t \in Threads :
          LET S == thr[t].data.recs[thr[t].p_idx + 1][1]
          IN  (RecordStep(t) /\ S \in DOMAIN reverse_index)
                 => /\ reverse_index' = reverse_index
                    /\ DOMAIN current_dref_values' =
                          DOMAIN current_dref_values \cup {reverse_index[S]}
                    /\ \A n \in DOMAIN current_dref_values :
                          n # reverse_index[S]
                             => current_dref_values'[n] = current_dref_values[n]
      ]_vars

C3_Witness ==
    /\ DOMAIN current_dref_values = {"a", "b"}
    /\ current_dref_values["a"].value = Some(2)
    /\ current_dref_values["b"].value = Some(1)
    /\ current_dref_values["a"].timestamp # current_dref_values["b"].timestamp

\* The scenario of C4: one subscribeDREFs call has been made and is over, its
\* thread is the only one, and that thread ends its pass over a datagram.
C4_Scenario(t) ==
    /\ Len(thr) = 1
    /\ ~SubscribeRunning
    /\ thr[t].pc = "record"
    /\ thr'[t].pc = "recv"

NameOfSlot(i) == subscribed_drefs[i + 1][1]

LastOf(recs, js) == recs[CHOOSE j \in js : \A k \in js : k <= j][2]

LastValueForSlot(recs, i) == LastOf(recs, {j \in 1..Len(recs) : recs[j][1] = i})

LastValueForName(recs, name) ==
    LastOf(recs, {j \in 1..Len(recs) : NameOfSlot(recs[j][1]) = name})

\* C4 as stated: once the datagram has been gone through, for every slot i in
\* it the entry of name_i (the i-th name of the list) holds the value of the
\* last record for slot i, and a timestamp.
C4_LastRecordOfSlot ==
    [][ \A t \in Threads :
          C4_Scenario(t) =>
             \A j \in 1..Len(thr[t].data.recs) :
                LET i == thr[t].data.recs[j][1]
                    e == current_dref_values'[NameOfSlot(i)]
                IN  /\ e.value = Some(LastValueForSlot(thr[t].data.recs, i))
                    /\ e.timestamp # None
      ]_vars

\* C4 as amended: the entry of name_i holds the value of the last record
\* whose slot is registered to name_i, and a timestamp.
C4_LastRecordOfName ==
    [][ \A t \in Threads :
          C4_Scenario(t) =>
             \A j \in 1..Len(thr[t].data.recs) :
                LET i == thr[t].data.recs[j][1]
                    e == current_dref_values'[NameOfSlot(i)]
                IN  /\ e.value = Some(LastValueForName(thr[t].data.recs, NameOfSlot(i)))
                    /\ e.timestamp # None
      ]_vars

C4_Witness ==
    /\ Len(thr) = 1
    /\ ~SubscribeRunning
    /\ thr[1].pc = "recv"
    /\ subscribed_drefs = << <<"a", SubFreq>>, <<"b", SubFreq>> >>
    /\ current_dref_values["a"].value = Some(1)
    /\ current_dref_values["b"].value = Some(2)
    /\ current_dref_values["a"].timestamp # None
    /\ current_dref_values["b"].timestamp # None

\* C5: a thread that receives an RREF datagram whose length less the header
\* is no multiple of 8 stops with the framing error, and the cache is as it
\* was.
C5_MisalignedIsFramingError ==
    [][ (SockRead /\ Head(inbox[MainSock]).tag = "RREF" /\ Head(inbox[MainSock]).extra # 0)
           => /\ \E t \in Threads :
                    /\ thr[t].pc = "recv"
                    /\ thr'[t].pc = "stopped"
                    /\ thr'[t].err = FramingError
              /\ current_dref_values' = current_dref_values
      ]_vars

C5_Witness == \E t \in Threads : thr[t].pc = "stopped" /\ thr[t].err = FramingError

\* C6: a thread that decodes a record whose slot id is neither in the registry
\* nor the slot of a getDREF in flight stops with the invalid-index error; the
\* record is not passed over.
C6_UnknownIndexReported ==
    [][ \A t \in Threads :
          LET S == thr[t].data.recs[thr[t].p_idx + 1][1]
          IN  ( /\ RecordStep(t)
                /\ S \notin DOMAIN reverse_index
                /\ \A c \in Callers : InFlightGetDREF(c) => call[c].idx # S )
                 => /\ thr'[t].pc = "stopped"
                    /\ thr'[t].err = IndexError
      ]_vars

C6_Witness == \E t \in Threads : thr[t].pc = "stopped" /\ thr[t].err = IndexError

\* C7: on both receive paths a datagram whose tag is not RREF ends in an
\* error: the thread that reads it stops, the getDREF that reads it raises.
C7_TagValidated ==
    [][ /\ (SockRead /\ Head(inbox[MainSock]).tag # "RREF")
           => \E t \in Threads : thr[t].pc = "recv" /\ thr'[t].pc = "stopped"
        /\ \A c \in Callers :
              ( /\ call[c].pc = "get_recv"
                /\ call'[c].pc # "get_recv"
                /\ Head(inbox[TempSock(c)]).tag # "RREF" )
                 => call'[c].result.kind = "raise"
      ]_vars

\* C8: a getDREF that is over, with a value or with an error, has sent the
\* Unsubscribe request (frequency 0) for its slot id after the Subscribe
\* request.
C8_UnsubscribeAlwaysSent ==
    \A c \in Callers :
       Terminated(c, "getDREF") =>
          \E i, j \in 1..Len(call[c].events) :
             /\ i < j
             /\ call[c].events[i] = SendRREF(TempSock(c), GetDREFFreq, call[c].idx, call[c].dref)
             /\ call[c].events[j] = SendRREF(TempSock(c), 0, call[c].idx, call[c].dref)

\* C9: a getDREF that waits and has no datagram to read can go on (by timing
\* out), so it does not wait for ever.
C9_WaitCanTimeOut ==
    \A c \in Callers :
       (call[c].pc = "get_recv" /\ inbox[TempSock(c)] = <<>>) => ENABLED CallerStep(c)

\* C10: a getPOSI that has returned has done, in this order and nothing else:
\* sent the request at 100 Hz, received a datagram tagged RPOS, sent the
\* request at rate 0, returned the record; and one on its way has done a
\* beginning of that.
C10_Order(ev, k) ==
    /\ k = 1 => (ev.ev = "send" /\ ev.tag = "RPOS" /\ ev.a = PosiRate)
    /\ k = 2 => (ev.ev = "recv" /\ ev.tag = "RPOS")
    /\ k = 3 => (ev.ev = "send" /\ ev.tag = "RPOS" /\ ev.a = 0)
    /\ k = 4 => ev.ev = "return"

HeaderError == "ValueError: Received invalid header."

\* C11: a getPOSI that waits and receives a datagram whose tag is not RPOS
\* ends with the invalid-header error: it neither unpacks the datagram as a
\* position record nor goes on waiting.
C11_NonRPOSIsProtocolError ==
    [][ \A c \in Callers :
          ( /\ call[c].pc = "posi_recv"
            /\ call'[c] # call[c]
            /\ Head(inbox[TempSock(c)]).tag # "RPOS" )
             => /\ call'[c].pc = "idle"
                /\ call'[c].val = None
                /\ call'[c].result = Raised(HeaderError)
      ]_vars

C11_Witness ==
    \E c \in Callers :
       /\ Terminated(c, "getPOSI")
       /\ call[c].result = Raised(HeaderError)
       /\ Len(call[c].events) = 3
       /\ call[c].events[2].ev = "recv"
       /\ call[c].events[2].tag = "XXXX"

\* C12: a sendPOSI call sends the VEHS datagram on self.sock twice, the same
\* datagram both times, and nothing in between; a call that is over has sent
\* exactly these two and returned.
C12_TwoIdenticalVEHS ==
    \A c \in Callers :
       call[c].op = "sendPOSI" =>
          \E pos \in PosInputs :
             LET whole == << SendVEHS(MainSock, pos), SendVEHS(MainSock, pos), Return >>
                 n == Len(call[c].events)
             IN  /\ n <= 3
                 /\ call[c].events = SubSeq(whole, 1, n)
                 /\ call[c].pc = "idle" => n = 3
                 /\ {SendVEHS(MainSock, pos)} \subseteq sockSent

C12_Witness ==
    \E c \in Callers :
       /\ Terminated(c, "sendPOSI")
       /\ call[c].events[1] = SendVEHS(MainSock, 2)
       /\ call[c].events[2] = call[c].events[1]

\* A Subscribe request of subscribeDREFs has gone out on self.sock.
SubscribeSent == \E e \in sockSent : e.tag = "RREF"

\* C13: from the first Subscribe request on, every name of the registry is a
\* key of the cache, so that a reader's lookup of a registered name never
\* fails.
C13_NoMissingKey ==
    SubscribeSent =>
       \A i \in DOMAIN reverse_index : reverse_index[i] \in DOMAIN current_dref_values

\* C14: the timestamp of a name's entry never goes back and, once set, is
\* never unset again.
C14_TimestampMonotonic ==
    [][ \A n \in (DOMAIN current_dref_values) \cap (DOMAIN current_dref_values') :
          current_dref_values[n].timestamp # None
             => /\ current_dref_values'[n].timestamp # None
                /\ current_dref_values'[n].timestamp[1] >= current_dref_values[n].timestamp[1]
      ]_vars

\* A caller thread moved in this step.
CallerMoved == \E c \in Callers : call'[c] # call[c]

\* C15: a step of a caller's operation leaves every entry the cache has as it
\* is: the entry stays, with its value and its timestamp.
C15_LoopIsSoleWriter ==
    [][ CallerMoved =>
           \A n \in DOMAIN current_dref_values :
              /\ n \in DOMAIN current_dref_values'
              /\ current_dref_values'[n] = current_dref_values[n]
      ]_vars

\* The observe threads that have not ended.
LiveThreads == {t \in Threads : thr[t].pc # "stopped"}

\* C16: at most one observe thread is alive, and so reading self.sock, at any
\* time.
C16_OneReceiveLoop == Cardinality(LiveThreads) <= 1

\* C17: an observe thread ends only with the framing error or the
\* invalid-index error, and once every thread that was started has ended the
\* cache stays as it is.
C17_StopsOnDecodeErrorThenStale ==
    [][ /\ \A t \in Threads :
              (thr[t].pc # "stopped" /\ thr'[t].pc = "stopped")
                 => thr'[t].err \in {FramingError, IndexError}
        /\ (Threads # {} /\ LiveThreads = {})
              => current_dref_values' = current_dref_values
      ]_vars

\* C18: the value and the timestamp that print_state reads for a key are the
\* two halves of one entry, the one its first lookup returned or the one its
\* second lookup returned; and in every entry of the cache the value is unset
\* exactly when the timestamp is.
C18_NoTornRead ==
    [][ /\ \A c \in Callers :
              (call[c].pc = "print_timestamp" /\ call'[c].pc = "print_next")
                 => LET pre == call[c].val[1]
                        post == StateOf(c)[call[c].dref]
                        seen == [value |-> pre.value, timestamp |-> post.timestamp]
                    IN  seen = pre \/ seen = post
        /\ \A n \in DOMAIN current_dref_values' :
              (current_dref_values'[n].value = None)
                 <=> (current_dref_values'[n].timestamp = None)
      ]_vars

\* C19: two getDREF calls in flight at the same time have different slot ids.
C19_OneQueryPerSlot ==
    \A c1, c2 \in Callers :
       (c1 # c2 /\ InFlightGetDREF(c1) /\ InFlightGetDREF(c2)) => call[c1].idx # call[c2].idx

\* Caller c is blocked in the recvfrom of a getDREF or getPOSI.
QueryWaiting(c) == call[c].pc \in {"get_recv", "posi_recv"} /\ inbox[TempSock(c)] = <<>>

\* C20: an observe thread waits for nothing but a datagram on self.sock: with
\* one queued it can take it, and in the middle of a datagram it can deal
\* with the next record, whatever getDREF or getPOSI calls are waiting.
C20_QueryNeverBlocksLoop ==
    \A t \in Threads :
       /\ (thr[t].pc = "recv" /\ inbox[MainSock] # <<>>) => ENABLED Observe_Recv(t)
       /\ thr[t].pc = "record" => ENABLED Observe_Record(t)

C20_Witness ==
    \E c \in Callers : \E t \in Threads :
       /\ QueryWaiting(c)
       /\ thr[t].pc = "recv"
       /\ inbox[MainSock] # <<>>
       /\ IsRREF(Head(inbox[MainSock]))
       /\ ~Misaligned(Head(inbox[MainSock]))
       /\ KnownIndex(Head(inbox[MainSock]).recs[1][1], reverse_index)

\* The value of the last of the first k records of recs whose slot is
\* registered to name.
LastValueBefore(recs, k, name) ==
    LastOf(recs, {j \in 1..k : NameOfSlot(recs[j][1]) = name})

\* C21: when a thread comes, at position k of a well-framed datagram, to a
\* record whose slot id is not in the registry, it stops there with the
\* invalid-index error and stores nothing in that step; a thread that has
\* stopped never moves again, so the records after k are never applied; and
\* the records before k are in the cache already (with one thread and no
\* subscribeDREFs call under way: each of their names has the value of the
\* last of them, and a timestamp).
C21_DispatchNotAtomic ==
    [][ \A t \in Threads :
          /\ thr[t].pc = "stopped" => thr'[t] = thr[t]
          /\ LET recs == thr[t].data.recs
                 k == thr[t].p_idx
             IN  (RecordStep(t) /\ recs[k + 1][1] \notin DOMAIN reverse_index)
                    => /\ thr'[t].pc = "stopped"
                       /\ thr'[t].err = IndexError
                       /\ current_dref_values' = current_dref_values
                       /\ (Len(thr) = 1 /\ ~SubscribeRunning)
                             => \A j \in 1..k :
                                   LET e == current_dref_values'[NameOfSlot(recs[j][1])]
                                   IN  /\ e.value = Some(LastValueBefore(recs, k, NameOfSlot(recs[j][1])))
                                       /\ e.timestamp # None
      ]_vars

C21_Witness ==
    /\ Len(thr) = 1
    /\ ~SubscribeRunning
    /\ thr[1].pc = "stopped"
    /\ thr[1].err = IndexError
    /\ subscribed_drefs = << <<"a", SubFreq>> >>
    /\ current_dref_values["a"].value = Some(1)
    /\ current_dref_values["a"].timestamp # None

\* C22: a getPOSI that has returned sent its request at rate 0 from the
\* endpoint that sent its request at 100 Hz, so that no endpoint is left
\* with position delivery asked for and not cancelled.
C22_CancelFromRequestEndpoint ==
    \A c \in Callers :
       (Terminated(c, "getPOSI") /\ call[c].result.kind = "return")
          => \E i, j \in 1..Len(call[c].events) :
                /\ i < j
                /\ call[c].events[i] = SendRPOS(call[c].events[i].ep, PosiRate)
                /\ call[c].events[j] = SendRPOS(call[c].events[i].ep, 0)

====
